---- MODULE Spec2Model ----
(***************************************************************************)
(* Model of frontend_nextjs/components/useVoiceClient.ts: the session      *)
(* message router (useVoiceClient) and the audio playback scheduler        *)
(* (useSoundPlayer).  One action per handler or operation; every action    *)
(* is one synchronous event-loop turn of the hook.                         *)
(***************************************************************************)
EXTENDS Integers, Sequences, FiniteSets, TLC

\* ------------------------------------------------------------------ bounds
\* Clips accepted by addToQueue over a run (buffer k is the k-th decoded).
MaxClips == 4
\* close() promises of stopAll that may be unresolved when initPlayer runs.
MaxPendingCloses == 2

\* Clips accepted over a run that also exercises muteAudio and unmuteAudio.
MaxGainClips == 2

\* Clips accepted over a run in which the browser's deliveries are fair.
MaxProgressClips == 3

\* connect() calls over a run.
MaxConnects == 2
\* Inbound frames delivered by the transport over a run.
MaxFrames == 3
\* Inbound frames over a run that also exercises the connection lifecycle.
MaxSessionFrames == 1

Clips == 1..MaxClips
ProgressClips == 1..MaxProgressClips

\* The delay of the audio hand-off, in ms (setTimeout(..., 200)).
HandoffDelay == 200
\* Amounts of time, in ms, by which the clock advances in one step.
TickSteps == {50, 200}

\* ------------------------------------------------------- scheduler state
VARIABLES
  isInitialized,                 \* isInitialized.current
  audioContext,                  \* audioContext.current: 0 is null, 1 the context
                                 \* the last initPlayer created
  analyserNode,                  \* analyserNode.current: 0 is null, 1 the analyser
                                 \* the last initPlayer created
  gainNode,                      \* gainNode.current: 0 is null, 1 the gain node
                                 \* the last initPlayer created
  gain,                          \* gain.value of that node (1 while there is none)
  isAudioMuted,                  \* React state isAudioMuted
  clipQueue,                     \* clipQueue.current: sequence of {id, buffer}
  isProcessing,                  \* isProcessing.current
  currentlyPlayingAudioBuffer,   \* 0 is null, else the source of that buffer
  frequencyDataIntervalId,       \* 0 is null, else the last interval id set
  isPlaying,                     \* React state isPlaying
  fft,                           \* React state fft: "idle" is generateEmptyFft()
  sources,                       \* every AudioBufferSourceNode: state, path
  intervals,                     \* interval ids window.setInterval still has scheduled
  pendingCloses,                 \* close() promises of stopAll not yet resolved
  curClosing,                    \* close() was called on audioContext.current
  nextClip,                      \* the buffer the next accepted clip decodes to
  pOut,                          \* callbacks the last scheduler operation invoked
  pOp,                           \* the last scheduler operation
  enqueued,                      \* ids pushed since the last clearQueue/stopAll
  played,                        \* ids onPlayAudio signalled since then
  discarded,                     \* buffers clearQueue/stopAll removed from the queue
  afterClear                     \* a clearQueue ran and no clip was pushed since

playerVars ==
  << isInitialized, audioContext, analyserNode, gainNode, gain, isAudioMuted,
     clipQueue, isProcessing,
     currentlyPlayingAudioBuffer, frequencyDataIntervalId, isPlaying, fft,
     sources, intervals, pendingCloses, curClosing, nextClip, pOut, pOp,
     enqueued, played, discarded, afterClear >>

\* ---------------------------------------------------------- router state
VARIABLES
  readyState,     \* React state readyState
  curChatMode,    \* React state curChatMode
  clients,        \* every ChatSocket connect() created; client.current is the last
  timers,         \* pending setTimeout hand-offs, in creation order
  frameCount,     \* inbound frames delivered so far
  audioCount,     \* audio_output frames among them (frame k has id ToString(k))
  handed,         \* ids of the frames handed to onAudioMessage, in order
  interruptedUpTo, \* audio_output frames that had arrived when onVAD was last called
  rOut,           \* callbacks and transport calls of the last router operation
  rFailed,        \* the last message handler ended by throwing
  rOp             \* the last router operation

routerVars ==
  << readyState, curChatMode, clients, timers, frameCount, audioCount, handed,
     interruptedUpTo, rOut, rFailed, rOp >>

vars == << playerVars, routerVars >>

\* A buffer source is "playing" from start(0) until stop() is called on it
\* ("stopped") or its ended event is dispatched ("ended").  Its path is
\* the analyser through which it reaches the output: "current" is
\* analyserNode.current, "leaked" an analyser a later initPlayer replaced
\* without a stopAll (it stays connected to its destination), "none" when
\* the source was disconnected or its analyser was (by stopAll).
NoSource == [state |-> "none", path |-> "none"]

ErrNoEnv == [cb |-> "onError", msg |-> "Audio environment is not initialized"]
ErrNoInit == [cb |-> "onError", msg |-> "Audio player has not been initialized"]
ErrDecode == [cb |-> "onError", msg |-> "Failed to add clip to queue"]
PlayAudio(id) == [cb |-> "onPlayAudio", id |-> id]

\* The scheduler's state as one record, so that a handler is a composition
\* of the functions it calls.
PState ==
  [ isInitialized |-> isInitialized, audioContext |-> audioContext,
    analyserNode |-> analyserNode, gainNode |-> gainNode, gain |-> gain,
    isAudioMuted |-> isAudioMuted, clipQueue |-> clipQueue,
    isProcessing |-> isProcessing,
    currentlyPlayingAudioBuffer |-> currentlyPlayingAudioBuffer,
    frequencyDataIntervalId |-> frequencyDataIntervalId,
    isPlaying |-> isPlaying, fft |-> fft, sources |-> sources,
    intervals |-> intervals, pendingCloses |-> pendingCloses,
    curClosing |-> curClosing, nextClip |-> nextClip, pOut |-> <<>>,
    enqueued |-> enqueued, played |-> played, discarded |-> discarded,
    afterClear |-> afterClear ]

Commit(p, op) ==
  /\ isInitialized' = p.isInitialized
  /\ audioContext' = p.audioContext
  /\ analyserNode' = p.analyserNode
  /\ gainNode' = p.gainNode
  /\ gain' = p.gain
  /\ isAudioMuted' = p.isAudioMuted
  /\ clipQueue' = p.clipQueue
  /\ isProcessing' = p.isProcessing
  /\ currentlyPlayingAudioBuffer' = p.currentlyPlayingAudioBuffer
  /\ frequencyDataIntervalId' = p.frequencyDataIntervalId
  /\ isPlaying' = p.isPlaying
  /\ fft' = p.fft
  /\ sources' = p.sources
  /\ intervals' = p.intervals
  /\ pendingCloses' = p.pendingCloses
  /\ curClosing' = p.curClosing
  /\ nextClip' = p.nextClip
  /\ pOut' = p.pOut
  /\ pOp' = op
  /\ enqueued' = p.enqueued
  /\ played' = p.played
  /\ discarded' = p.discarded
  /\ afterClear' = p.afterClear

\* clearInterval(frequencyDataIntervalId.current), guarded by its truthiness.
ClearFrequencyInterval(p) ==
  IF p.frequencyDataIntervalId # 0
    THEN [p EXCEPT !.intervals = @ \ {p.frequencyDataIntervalId}]
    ELSE p

\* A dequeue that takes the newest clip: pop() where the code has shift().
PopClip(q) == [nextClip |-> q[Len(q)], rest |-> SubSeq(q, 1, Len(q) - 1)]

\* clipQueue.current.shift(): the head, and the queue without it.
ShiftClip(q) == [nextClip |-> Head(q), rest |-> Tail(q)]

\* playNextClip: the two guards, then dequeue, mark processing, create and
\* connect the buffer source, start the sampling interval, start(0) and
\* onPlayAudio.
PlayNextClip(p) ==
  IF p.analyserNode = 0 \/ p.audioContext = 0
    THEN [p EXCEPT !.pOut = Append(@, ErrNoEnv)]
  ELSE IF Len(p.clipQueue) = 0 \/ p.isProcessing
    THEN p
  ELSE LET nextClipEntry == ShiftClip(p.clipQueue).nextClip
           c == nextClipEntry.buffer
       IN
    [p EXCEPT
       !.clipQueue = ShiftClip(@).rest,
       !.isProcessing = TRUE,
       !.isPlaying = TRUE,
       !.sources[c] = [state |-> "playing", path |-> "current"],
       !.currentlyPlayingAudioBuffer = c,
       !.intervals = @ \cup {c},
       !.frequencyDataIntervalId = c,
       !.pOut = Append(@, PlayAudio(nextClipEntry.id)),
       !.played = Append(@, nextClipEntry.id)]

\* An onended that leaves the last spectrum snapshot on display.
OnendedKeepsFft(p, s) ==
  LET p1 == ClearFrequencyInterval(p)
      p2 == [p1 EXCEPT
               !.sources[s] = [state |-> "ended", path |-> "none"],
               !.isProcessing = FALSE,
               !.isPlaying = FALSE,
               !.currentlyPlayingAudioBuffer = 0]
  IN PlayNextClip(p2)

\* bufferSource.onended of source s.
OnendedHandler(p, s) ==
  LET p1 == ClearFrequencyInterval(p)
      p2 == [p1 EXCEPT
               !.fft = "idle",
               !.sources[s] = [state |-> "ended", path |-> "none"],
               !.isProcessing = FALSE,
               !.isPlaying = FALSE,
               !.currentlyPlayingAudioBuffer = 0]
  IN PlayNextClip(p2)

\* The sources of path `from` now have path `to`.
Repath(srcs, from, to) ==
  [c \in DOMAIN srcs |->
     IF srcs[c].path = from THEN [srcs[c] EXCEPT !.path = to] ELSE srcs[c]]

\* initPlayer: a new context with its analyser -> gain -> destination graph
\* replaces the refs; the graph they referred to is not disconnected.
InitPlayerOp(p) ==
  [p EXCEPT
     !.audioContext = 1,
     !.analyserNode = 1,
     !.gainNode = 1,
     !.gain = 1,
     !.sources = Repath(@, "current", "leaked"),
     !.curClosing = FALSE,
     !.isInitialized = TRUE]

\* An addToQueue that drops an undecodable clip without reporting it.
AddToQueueDropsSilently(p, message) ==
  IF ~p.isInitialized \/ p.audioContext = 0
    THEN [p EXCEPT !.pOut = Append(@, ErrNoInit)]
  ELSE IF ~message.decodable
    THEN p
  ELSE LET p1 == [p EXCEPT
                    !.clipQueue = Append(@, [id |-> message.id,
                                             buffer |-> p.nextClip]),
                    !.nextClip = @ + 1,
                    !.enqueued = Append(@, message.id),
                    !.afterClear = FALSE]
       IN IF Len(p1.clipQueue) = 1 THEN PlayNextClip(p1) ELSE p1

\* addToQueue(message); message.decodable is whether createBuffer and
\* Int16Array accept message.data.
AddToQueueOp(p, message) ==
  IF ~p.isInitialized \/ p.audioContext = 0
    THEN [p EXCEPT !.pOut = Append(@, ErrNoInit)]
  ELSE IF ~message.decodable
    THEN [p EXCEPT !.pOut = Append(@, ErrDecode)]
  ELSE LET p1 == [p EXCEPT
                    !.clipQueue = Append(@, [id |-> message.id,
                                             buffer |-> p.nextClip]),
                    !.nextClip = @ + 1,
                    !.enqueued = Append(@, message.id),
                    !.afterClear = FALSE]
       IN IF Len(p1.clipQueue) = 1 THEN PlayNextClip(p1) ELSE p1

SeqRange(q) == { q[i] : i \in 1..Len(q) }
Buffers(q) == { q[i].buffer : i \in 1..Len(q) }

\* stopAll
StopAllOp(p) ==
  LET p1 == ClearFrequencyInterval(
              [p EXCEPT !.isInitialized = FALSE, !.isProcessing = FALSE,
                        !.isPlaying = FALSE])
      p2 == IF p1.currentlyPlayingAudioBuffer # 0
              THEN [p1 EXCEPT
                      !.sources[p1.currentlyPlayingAudioBuffer].path = "none",
                      !.currentlyPlayingAudioBuffer = 0]
              ELSE p1
      p3 == IF p2.analyserNode # 0
              THEN [p2 EXCEPT !.sources = Repath(@, "current", "none"),
                              !.analyserNode = 0]
              ELSE p2
      \* close() on a context that is already closing or closed rejects,
      \* and the rejection is swallowed
      p4 == IF p3.audioContext # 0 /\ ~p3.curClosing
              THEN [p3 EXCEPT !.pendingCloses = @ + 1, !.curClosing = TRUE]
              ELSE p3
  IN [p4 EXCEPT
        !.discarded = @ \cup Buffers(p4.clipQueue),
        !.clipQueue = <<>>,
        !.fft = "idle",
        !.enqueued = <<>>,
        !.played = <<>>]

\* A clearQueue that forgets to reopen the processing gate.
ClearQueueKeepsGate(p) ==
  LET p1 == IF p.currentlyPlayingAudioBuffer # 0
              THEN [p EXCEPT
                      !.sources[p.currentlyPlayingAudioBuffer].state = "stopped",
                      !.currentlyPlayingAudioBuffer = 0]
              ELSE p
  IN [p1 EXCEPT
        !.discarded = @ \cup Buffers(p1.clipQueue),
        !.clipQueue = <<>>,
        !.isPlaying = FALSE,
        !.fft = "idle",
        !.enqueued = <<>>,
        !.played = <<>>,
        !.afterClear = TRUE]

\* clearQueue
ClearQueueOp(p) ==
  LET p1 == IF p.currentlyPlayingAudioBuffer # 0
              THEN [p EXCEPT
                      !.sources[p.currentlyPlayingAudioBuffer].state = "stopped",
                      !.currentlyPlayingAudioBuffer = 0]
              ELSE p
  IN [p1 EXCEPT
        !.discarded = @ \cup Buffers(p1.clipQueue),
        !.clipQueue = <<>>,
        !.isProcessing = FALSE,
        !.isPlaying = FALSE,
        !.fft = "idle",
        !.enqueued = <<>>,
        !.played = <<>>,
        !.afterClear = TRUE]

\* The .then callback of audioContext.current.close() in stopAll.
CloseThen(p) ==
  [p EXCEPT !.pendingCloses = @ - 1, !.audioContext = 0, !.curClosing = FALSE]

\* updateFrequencyData, one firing of the 5 ms interval; readOk is whether
\* the read of the analyser succeeded (the catch sets the empty fft).
UpdateFrequencyData(p, readOk) ==
  IF p.analyserNode = 0 THEN p
  ELSE [p EXCEPT !.fft = IF readOk THEN "live" ELSE "idle"]

\* muteAudio
MuteAudioOp(p) ==
  IF p.gainNode # 0 /\ p.audioContext # 0
    THEN [p EXCEPT !.gain = 0, !.isAudioMuted = TRUE]
    ELSE p

\* unmuteAudio
UnmuteAudioOp(p) ==
  IF p.gainNode # 0 /\ p.audioContext # 0
    THEN [p EXCEPT !.gain = 1, !.isAudioMuted = FALSE]
    ELSE p

\* ------------------------------------------------------ scheduler actions
InitPlayer ==
  /\ pendingCloses < MaxPendingCloses
  /\ Commit(InitPlayerOp(PState), [op |-> "initPlayer"])
  /\ UNCHANGED routerVars

\* addToQueue is called; at most n clips are accepted over the run.
Enqueue(n) ==
  /\ nextClip <= n
  /\ \E decodable \in BOOLEAN :
       Commit(AddToQueueOp(PState, [id |-> ToString(nextClip),
                                    decodable |-> decodable]),
              [op |-> "addToQueue", decodable |-> decodable])
  /\ UNCHANGED routerVars

AddToQueue == Enqueue(MaxClips)

GainAddToQueue == Enqueue(MaxGainClips)

ProgressAddToQueue == Enqueue(MaxProgressClips)

MuteAudio ==
  /\ Commit(MuteAudioOp(PState), [op |-> "mute"])
  /\ UNCHANGED routerVars

UnmuteAudio ==
  /\ Commit(UnmuteAudioOp(PState), [op |-> "unmute"])
  /\ UNCHANGED routerVars

\* The ended event of source s is dispatched: s played to its end, or stop()
\* was called on it.
OnendedOf(s) ==
  /\ sources[s].state \in {"playing", "stopped"}
  /\ Commit(OnendedHandler(PState, s), [op |-> "onended"])
  /\ UNCHANGED routerVars

Onended == \E s \in Clips : OnendedOf(s)

ClearQueue ==
  /\ Commit(ClearQueueOp(PState), [op |-> "clearQueue"])
  /\ UNCHANGED routerVars

StopAll ==
  /\ Commit(StopAllOp(PState), [op |-> "stopAll"])
  /\ UNCHANGED routerVars

CloseDone ==
  /\ pendingCloses > 0
  /\ Commit(CloseThen(PState), [op |-> "closeThen"])
  /\ UNCHANGED routerVars

SampleTick ==
  /\ \E i \in intervals, readOk \in BOOLEAN :
       Commit(UpdateFrequencyData(PState, readOk), [op |-> "sample"])
  /\ UNCHANGED routerVars

PlayerInit ==
  /\ isInitialized = FALSE
  /\ audioContext = 0
  /\ analyserNode = 0
  /\ gainNode = 0
  /\ gain = 1
  /\ isAudioMuted = FALSE
  /\ clipQueue = <<>>
  /\ isProcessing = FALSE
  /\ currentlyPlayingAudioBuffer = 0
  /\ frequencyDataIntervalId = 0
  /\ isPlaying = FALSE
  /\ fft = "idle"
  /\ sources = [c \in Clips |-> NoSource]
  /\ intervals = {}
  /\ pendingCloses = 0
  /\ curClosing = FALSE
  /\ nextClip = 1
  /\ pOut = <<>>
  /\ pOp = [op |-> "init"]
  /\ enqueued = <<>>
  /\ played = <<>>
  /\ discarded = {}
  /\ afterClear = FALSE

PlayerNext ==
  \/ InitPlayer
  \/ AddToQueue
  \/ Onended
  \/ ClearQueue
  \/ StopAll
  \/ CloseDone
  \/ SampleTick

\* The scheduler over a run of few clips.
ProgressNext ==
  \/ InitPlayer
  \/ ProgressAddToQueue
  \/ Onended
  \/ ClearQueue
  \/ StopAll
  \/ CloseDone
  \/ SampleTick

\* The scheduler with its gain control.
GainNext ==
  \/ InitPlayer
  \/ GainAddToQueue
  \/ Onended
  \/ ClearQueue
  \/ StopAll
  \/ CloseDone
  \/ MuteAudio
  \/ UnmuteAudio

\* ------------------------------------------------------- router handlers
\* An optional string field is a sequence of at most one string: <<>> is
\* a missing field.  Truthy is what `if (message.question)` tests.
Truthy(opt) == opt # <<>> /\ opt[1] # ""

NoCause == [kind |-> "none", message |-> ""]
\* What the transport's error event can carry: an Error, or a plain Event.
ErrorValues ==
  { [kind |-> "Error", message |-> "socket failed"],
    [kind |-> "Event", message |-> ""] }

OnVAD == [cb |-> "onVAD"]
OnOpen == [cb |-> "onOpen"]
OnClose == [cb |-> "onClose"]
OnAudioMessage(id) == [cb |-> "onAudioMessage", id |-> id]
VadUserMessage ==
  [cb |-> "onMessage", type |-> "user_vad_message", role |-> "user",
   content |-> "", id |-> "", end |-> FALSE]
NotEndMessage ==
  [cb |-> "onMessage", type |-> "assistant_notend_message",
   role |-> "assistant", content |-> "", id |-> "notend begin", end |-> FALSE]
UserMsg(content) ==
  [cb |-> "onMessage", type |-> "user_message", role |-> "user",
   content |-> content, id |-> "", end |-> FALSE]
AssistantMsg(id, content, end) ==
  [cb |-> "onMessage", type |-> "assistant_message", role |-> "assistant",
   content |-> content, id |-> id, end |-> end]
PostAssistantMsg(id, content) ==
  [cb |-> "onMessage", type |-> "post_assistant_message",
   role |-> "assistant", content |-> content, id |-> id, end |-> TRUE]
TransportCall(name, client) == [call |-> name, client |-> client]

\* const message = e instanceof Error ? e.message : 'Unknown error'
Normalize(e) == IF e.kind = "Error" THEN e.message ELSE "Unknown error"
OnErrorCb(e) ==
  [cb |-> "onError", msg |-> Normalize(e),
   error |-> IF e.kind = "Error" THEN e ELSE NoCause]

\* resolve / reject of the promise connect() returned: the first call
\* settles it, later calls do nothing.
Settle(cl, outcome, cause) ==
  IF cl.promise = "pending"
    THEN [cl EXCEPT !.promise = outcome, !.cause = cause]
    ELSE cl

\* The vad_output branch with the two calls in the other order.
VadBranchMessageFirst(chatMode) ==
  IF chatMode THEN << VadUserMessage, OnVAD >> ELSE << NotEndMessage >>

\* The vad_output branch of the message handler.
VadBranch(chatMode) ==
  IF chatMode THEN << OnVAD, VadUserMessage >> ELSE << NotEndMessage >>

\* The text events of the audio_output branch, the answer emitted first.
AudioBranchAnswerFirst(f) ==
  (IF Truthy(f.answer)
     THEN << AssistantMsg(f.id, f.answer[1], f.end) >> ELSE << >>)
  \o (IF Truthy(f.question) THEN << UserMsg(f.question[1]) >> ELSE << >>)

\* The text events of the audio_output branch.
AudioBranch(f) ==
  (IF Truthy(f.question) THEN << UserMsg(f.question[1]) >> ELSE << >>)
  \o (IF Truthy(f.answer)
        THEN << AssistantMsg(f.id, f.answer[1], f.end) >> ELSE << >>)

\* The text_output branch.
TextBranch(f) == << PostAssistantMsg(f.id, f.answer) >>

\* isNever(message): whether the call throws.  Its body is `return;`.
isNever(n) == FALSE

\* A hand-off that is delayed only when the frame carried text to show.
ScheduleHandoffTextOnly(ts, f) ==
  Append(ts, [id |-> f.id,
              remaining |-> IF Truthy(f.question) \/ Truthy(f.answer)
                              THEN HandoffDelay ELSE 0,
              elapsed |-> 0])

\* setTimeout(() => onAudioMessage.current?.(messageWithReceivedAt), 200)
ScheduleHandoff(ts, f) ==
  Append(ts, [id |-> f.id, remaining |-> HandoffDelay, elapsed |-> 0])

\* client.on('message', ...): the callbacks invoked in order, whether a
\* hand-off is scheduled, and whether the handler threw.
MessageHandler(chatMode, f) ==
  LET vadOut == IF f.type = "vad_output" THEN VadBranch(chatMode) ELSE << >>
  IN IF f.type = "audio_output"
       THEN [out |-> vadOut \o AudioBranch(f), schedule |-> TRUE,
             failed |-> FALSE]
       ELSE LET textOut == IF f.type = "text_output"
                             THEN TextBranch(f) ELSE << >>
            IN [out |-> vadOut \o textOut, schedule |-> FALSE,
                failed |-> isNever(f)]

\* client.on('open', ...)
OpenHandler(cl) ==
  [client |-> Settle(cl, "resolved", NoCause), out |-> << OnOpen >>]

\* A close handler that leaves the state alone after disconnect().
CloseHandlerUnlessIdle(rs) ==
  [readyState |-> IF rs = "idle" THEN "idle" ELSE "closed",
   out |-> << OnClose >>]

\* client.on('close', ...), given the readyState it runs in.
CloseHandler(rs) == [readyState |-> "closed", out |-> << OnClose >>]

\* An error handler that reports the error and leaves the promise pending.
ErrorHandlerNoReject(cl, e) ==
  [client |-> cl, out |-> << OnErrorCb(e) >>]

\* client.on('error', ...)
ErrorHandler(cl, e) ==
  [client |-> Settle(cl, "rejected", e), out |-> << OnErrorCb(e) >>]

\* client.current.sendUserInput(text)
TransportSendUserInput(client, text) ==
  [call |-> "sendUserInput", client |-> client, text |-> text]

\* A sendUserInput that shows the placeholder before the user's text.
SendUserInputPlaceholderFirst(cur, chatMode, text) ==
  (IF cur # 0 THEN << TransportSendUserInput(cur, text) >> ELSE << >>)
  \o (IF text = "new topic" THEN << >>
      ELSE << NotEndMessage >>
           \o (IF chatMode THEN << UserMsg(text) >> ELSE << >>))

\* sendUserInput(text): what it calls, given client.current (0 is null).
SendUserInputOut(cur, chatMode, text) ==
  (IF cur # 0 THEN << TransportSendUserInput(cur, text) >> ELSE << >>)
  \o (IF text = "new topic" THEN << >>
      ELSE (IF chatMode THEN << UserMsg(text) >> ELSE << >>)
           \o << NotEndMessage >>)

OptTexts(t) == { << >>, << "" >>, << t >> }

\* The frames the transport may deliver as its next one.
Frames(id) ==
  { [type |-> "vad_output"], [type |-> "unknown_output"],
    [type |-> "text_output", id |-> id, answer |-> "bye"] }
  \cup { [type |-> "audio_output", id |-> id, question |-> q, answer |-> a,
          end |-> e] :
         q \in OptTexts("hi"), a \in OptTexts("hello"), e \in BOOLEAN }

KnownTags == {"vad_output", "audio_output", "text_output"}
OutboundCommands ==
  {"sendSessionSettings", "sendAudioInput", "sendAssistantInput",
   "pauseAssistant", "resumeAssistant"}
UserTexts == {"hi", "new topic"}

Min(S) == CHOOSE x \in S : \A y \in S : x <= y

\* -------------------------------------------------------- router actions
Connect ==
  /\ Len(clients) < MaxConnects
  /\ \E chatMode \in BOOLEAN :
       /\ clients' = Append(clients, [chatMode |-> chatMode,
                                      promise |-> "pending", cause |-> NoCause])
       /\ curChatMode' = chatMode
       /\ rOp' = [op |-> "connect", chatMode |-> chatMode]
  /\ readyState' = "connecting"
  /\ rOut' = << >>
  /\ rFailed' = FALSE
  /\ UNCHANGED interruptedUpTo
  /\ UNCHANGED << timers, frameCount, audioCount, handed >>
  /\ UNCHANGED playerVars

Disconnect ==
  /\ readyState' = "idle"
  /\ rOut' = IF Len(clients) > 0
               THEN << TransportCall("close", Len(clients)) >> ELSE << >>
  /\ rFailed' = FALSE
  /\ UNCHANGED interruptedUpTo
  /\ rOp' = [op |-> "disconnect"]
  /\ UNCHANGED << curChatMode, clients, timers, frameCount, audioCount, handed >>
  /\ UNCHANGED playerVars

TransportOpen ==
  /\ \E i \in 1..Len(clients) :
       LET h == OpenHandler(clients[i]) IN
         /\ clients' = [clients EXCEPT ![i] = h.client]
         /\ rOut' = h.out
         /\ rOp' = [op |-> "open", client |-> i]
  /\ readyState' = "open"
  /\ rFailed' = FALSE
  /\ UNCHANGED interruptedUpTo
  /\ UNCHANGED << curChatMode, timers, frameCount, audioCount, handed >>
  /\ UNCHANGED playerVars

TransportClose ==
  /\ \E i \in 1..Len(clients) :
       rOp' = [op |-> "close", was |-> readyState]
  /\ readyState' = CloseHandler(readyState).readyState
  /\ rOut' = CloseHandler(readyState).out
  /\ rFailed' = FALSE
  /\ UNCHANGED interruptedUpTo
  /\ UNCHANGED << curChatMode, clients, timers, frameCount, audioCount, handed >>
  /\ UNCHANGED playerVars

TransportError ==
  /\ \E i \in 1..Len(clients), e \in ErrorValues :
       LET h == ErrorHandler(clients[i], e) IN
         /\ clients' = [clients EXCEPT ![i] = h.client]
         /\ rOut' = h.out
         /\ rOp' = [op |-> "error", client |-> i, error |-> e]
  /\ rFailed' = FALSE
  /\ UNCHANGED interruptedUpTo
  /\ UNCHANGED << readyState, curChatMode, timers, frameCount, audioCount,
                  handed >>
  /\ UNCHANGED playerVars

\* The transport delivers a frame to the message handler of client i; at
\* most n frames over the run.  What the router does with it.
RouteFrame(n) ==
  /\ frameCount < n
  /\ \E i \in 1..Len(clients), f \in Frames(ToString(audioCount + 1)) :
       LET h == MessageHandler(clients[i].chatMode, f) IN
         /\ rOut' = h.out
         /\ rFailed' = h.failed
         /\ interruptedUpTo' = IF OnVAD \in SeqRange(h.out)
                                 THEN audioCount ELSE interruptedUpTo
         /\ timers' = IF h.schedule THEN ScheduleHandoff(timers, f) ELSE timers
         /\ audioCount' = IF f.type = "audio_output"
                            THEN audioCount + 1 ELSE audioCount
         /\ rOp' = [op |-> "frame", chatMode |-> clients[i].chatMode,
                    frame |-> f]
  /\ frameCount' = frameCount + 1
  /\ UNCHANGED << readyState, curChatMode, clients, handed >>

\* A frame arrives while no application callback touches the scheduler.
DeliverFrame(n) == RouteFrame(n) /\ UNCHANGED playerVars

TransportMessage == DeliverFrame(MaxFrames)

SessionMessage == DeliverFrame(MaxSessionFrames)

\* Time passes; no timer is overrun, a due timer fires before time moves on.
Tick ==
  /\ timers # << >>
  /\ \E d \in TickSteps :
       /\ d <= Min({ timers[i].remaining : i \in 1..Len(timers) })
       /\ timers' = [i \in 1..Len(timers) |->
                       [timers[i] EXCEPT !.remaining = @ - d,
                                         !.elapsed = @ + d]]
  /\ rOut' = << >>
  /\ rFailed' = FALSE
  /\ UNCHANGED interruptedUpTo
  /\ rOp' = [op |-> "tick"]
  /\ UNCHANGED << readyState, curChatMode, clients, frameCount, audioCount,
                  handed >>
  /\ UNCHANGED playerVars

\* The timer callback of a hand-off runs: among the timers that are due,
\* the one created first.  What the router does in it.
RunHandoff ==
  /\ \E i \in 1..Len(timers) :
       /\ timers[i].remaining = 0
       /\ \A j \in 1..(i - 1) : timers[j].remaining # 0
       /\ timers' = [k \in 1..(Len(timers) - 1) |->
                       IF k < i THEN timers[k] ELSE timers[k + 1]]
       /\ rOut' = << OnAudioMessage(timers[i].id) >>
       /\ handed' = Append(handed, timers[i].id)
       /\ rOp' = [op |-> "handoff", id |-> timers[i].id,
                  elapsed |-> timers[i].elapsed]
  /\ rFailed' = FALSE
  /\ UNCHANGED interruptedUpTo
  /\ UNCHANGED << readyState, curChatMode, clients, frameCount, audioCount >>

HandoffFire == RunHandoff /\ UNCHANGED playerVars

\* The application's callbacks: onVAD interrupts playback, onAudioMessage
\* enqueues the frame's audio.
OnVADWired(p) == ClearQueueOp(p)
OnAudioMessageWired(p, message) == AddToQueueOp(p, message)

\* A frame arrives; its handler calls onVAD when it is a vad_output frame in
\* chat mode.
WiredMessage ==
  /\ RouteFrame(MaxFrames)
  /\ IF OnVAD \in SeqRange(rOut')
       THEN Commit(OnVADWired(PState), [op |-> "clearQueue"])
       ELSE UNCHANGED playerVars

\* The timer callback of a hand-off runs and onAudioMessage enqueues the
\* frame's audio.
WiredHandoff ==
  /\ RunHandoff
  /\ \E decodable \in BOOLEAN :
       Commit(OnAudioMessageWired(PState, [id |-> rOp'.id,
                                           decodable |-> decodable]),
              [op |-> "addToQueue", decodable |-> decodable])

SendUserInput ==
  /\ \E text \in UserTexts :
       /\ rOut' = SendUserInputOut(Len(clients), curChatMode, text)
       /\ rOp' = [op |-> "sendUserInput", text |-> text,
                  chatMode |-> curChatMode]
  /\ rFailed' = FALSE
  /\ UNCHANGED interruptedUpTo
  /\ UNCHANGED << readyState, curChatMode, clients, timers, frameCount,
                  audioCount, handed >>
  /\ UNCHANGED playerVars

\* sendSessionSettings, sendAudio, sendAssistantInput and the pause and
\* resume commands: each forwards to client.current, if there is one.
SendCommand ==
  /\ \E cmd \in OutboundCommands :
       /\ rOut' = IF Len(clients) > 0
                    THEN << TransportCall(cmd, Len(clients)) >> ELSE << >>
       /\ rOp' = [op |-> "send", command |-> cmd]
  /\ rFailed' = FALSE
  /\ UNCHANGED interruptedUpTo
  /\ UNCHANGED << readyState, curChatMode, clients, timers, frameCount,
                  audioCount, handed >>
  /\ UNCHANGED playerVars

RouterInit ==
  /\ readyState = "idle"
  /\ curChatMode = FALSE
  /\ clients = << >>
  /\ timers = << >>
  /\ frameCount = 0
  /\ audioCount = 0
  /\ handed = << >>
  /\ interruptedUpTo = 0
  /\ rOut = << >>
  /\ rFailed = FALSE
  /\ rOp = [op |-> "init"]

\* The message path: frames, the clock and the delayed hand-offs.
RouterNext ==
  \/ Connect
  \/ TransportMessage
  \/ Tick
  \/ HandoffFire

\* The connection lifecycle and the outbound commands.
SessionNext ==
  \/ Connect
  \/ Disconnect
  \/ TransportOpen
  \/ TransportClose
  \/ TransportError
  \/ SessionMessage
  \/ SendUserInput
  \/ SendCommand

\* The router with its callbacks wired to the scheduler.
WiredNext ==
  \/ Connect
  \/ InitPlayer
  \/ WiredMessage
  \/ Tick
  \/ WiredHandoff
  \/ Onended

Init == PlayerInit /\ RouterInit

SpecPlayer == Init /\ [][PlayerNext]_vars

SpecRouter == Init /\ [][RouterNext]_vars

SpecSession == Init /\ [][SessionNext]_vars

SpecWired == Init /\ [][WiredNext]_vars

SpecGain == Init /\ [][GainNext]_vars

\* The scheduler when the browser delivers what it owes: the ended event of
\* every source that was started, and the resolution of every close().
SpecProgress ==
  /\ Init
  /\ [][ProgressNext]_vars
  /\ \A s \in ProgressClips : WF_vars(OnendedOf(s))
  /\ WF_vars(CloseDone)

\* A clip is sounding: its source was started, has neither ended nor been
\* stopped, and still reaches the output.
Sounding(s) ==
  /\ sources[s].state = "playing"
  /\ sources[s].path \in {"current", "leaked"}

SoundingSet == { s \in Clips : Sounding(s) }

IsPrefix(a, b) ==
  /\ Len(a) <= Len(b)
  /\ \A i \in 1..Len(a) : a[i] = b[i]

\* ------------------------------------------------------------------ claims

\* C1: at most one clip is sounding at any instant, over every interleaving
\* of initPlayer, addToQueue, clearQueue, stopAll and onended notifications.
C1_MutualExclusion == Cardinality(SoundingSet) <= 1

\* C2: the clip ids onPlayAudio has signalled since the last clearQueue or
\* stopAll (since construction if there was none) are a prefix of the ids
\* addToQueue has pushed since then: clips sound in enqueue order, each at
\* most once.
C2_FifoPrefix == IsPrefix(played, enqueued)

C2_Witness ==
  /\ pOp.op = "onended"
  /\ Len(played) >= 3
  /\ Len(enqueued) > Len(played)

\* C3: isProcessing is true if and only if a clip is currently sounding.
C3_ProcessingIffSounding == isProcessing <=> (SoundingSet # {})

\* C4: a clearQueue() made while a clip is active stops that clip, clears
\* the active-clip reference, empties the queue and sets isProcessing and
\* isPlaying to false; no clip removed from the queue is ever started; and
\* the first clip pushed after a clearQueue starts playing in that same
\* addToQueue call, with onPlayAudio fired for it.
C4_ClearStep ==
  (pOp'.op = "clearQueue" /\ currentlyPlayingAudioBuffer # 0) =>
     /\ sources'[currentlyPlayingAudioBuffer].state = "stopped"
     /\ currentlyPlayingAudioBuffer' = 0
     /\ clipQueue' = <<>>
     /\ isProcessing' = FALSE
     /\ isPlaying' = FALSE

C4_NextAddPlays ==
  (afterClear /\ pOp'.op = "addToQueue" /\ enqueued' # enqueued) =>
     /\ pOut' = << [cb |-> "onPlayAudio", id |-> enqueued'[1]] >>
     /\ currentlyPlayingAudioBuffer' = nextClip
     /\ sources'[nextClip].state = "playing"
     /\ nextClip \in SoundingSet'

C4_DiscardedSilent == \A c \in discarded : sources[c].state = "none"

C4_Interruption ==
  /\ []C4_DiscardedSilent
  /\ [][C4_ClearStep]_vars
  /\ [][C4_NextAddPlays]_vars

C4_Witness ==
  /\ pOp.op = "addToQueue"
  /\ Len(played) = 1
  /\ currentlyPlayingAudioBuffer # 0
  /\ sources[currentlyPlayingAudioBuffer].state = "playing"
  /\ Cardinality(discarded) >= 2
  /\ \E s \in Clips : sources[s].state = "stopped"

\* C5 as stated: the text events of an audio_output frame are decided by
\* the presence of question and answer.
C5_PresentEvents(f) ==
  (IF f.question # << >> THEN << UserMsg(f.question[1]) >> ELSE << >>)
  \o (IF f.answer # << >>
        THEN << AssistantMsg(f.id, f.answer[1], f.end) >> ELSE << >>)

\* C5 as amended: they are decided by question and answer being non-empty
\* strings.
C5_NonEmptyEvents(f) ==
  (IF f.question \in { << >>, << "" >> }
     THEN << >> ELSE << UserMsg(f.question[1]) >>)
  \o (IF f.answer \in { << >>, << "" >> }
        THEN << >> ELSE << AssistantMsg(f.id, f.answer[1], f.end) >>)

\* The hand-off half of C5: the handler of an audio_output frame leaves a
\* timer of the full delay for that frame and hands nothing off itself; a
\* hand-off is one onAudioMessage call made when the delay has elapsed.
C5_HandoffAfterDelay ==
  /\ (rOp.op = "frame" /\ rOp.frame.type = "audio_output") =>
        /\ timers # << >>
        /\ timers[Len(timers)] =
             [id |-> rOp.frame.id, remaining |-> HandoffDelay, elapsed |-> 0]
        /\ rOp.frame.id \notin SeqRange(handed)
        /\ ~rFailed
  /\ (rOp.op = "handoff") =>
        /\ rOut = << OnAudioMessage(rOp.id) >>
        /\ rOp.elapsed >= HandoffDelay

FrameNo(id) == CHOOSE n \in 1..MaxFrames : ToString(n) = id

\* C6: the frames handed to onAudioMessage are, in order, the first
\* audio_output frames that arrived (frame k carries id ToString(k)),
\* whatever the time between two arrivals; with onAudioMessage enqueuing,
\* the clips in the queue's current run were enqueued in arrival order and
\* are played in that order.
C6_ArrivalOrder ==
  /\ Len(handed) <= audioCount
  /\ \A k \in 1..Len(handed) : handed[k] = ToString(k)
  /\ \A i \in 1..Len(enqueued) :
       /\ enqueued[i] \in SeqRange(handed)
       /\ \A j \in (i + 1)..Len(enqueued) :
            FrameNo(enqueued[i]) < FrameNo(enqueued[j])
  /\ IsPrefix(played, enqueued)

C6_Witness ==
  /\ Len(handed) >= 2
  /\ Len(played) >= 2
  /\ played[2] = handed[2]
  /\ timers # << >>

\* C7: a vad_output frame in chat mode calls onVAD and then emits exactly
\* one UserMessage with empty content; in turn-based mode it emits exactly
\* one AssistantMessage with empty content and end = false, and neither
\* onVAD nor a UserMessage.  In neither mode is a hand-off scheduled.
C7_Step ==
  (rOp'.op = "frame" /\ rOp'.frame.type = "vad_output") =>
     /\ timers' = timers
     /\ handed' = handed
     /\ rOp'.chatMode =>
          rOut' = << [cb |-> "onVAD"],
                     [cb |-> "onMessage", type |-> "user_vad_message",
                      role |-> "user", content |-> "", id |-> "",
                      end |-> FALSE] >>
     /\ ~rOp'.chatMode =>
          rOut' = << [cb |-> "onMessage", type |-> "assistant_notend_message",
                      role |-> "assistant", content |-> "",
                      id |-> "notend begin", end |-> FALSE] >>

C7_VadDispatch == [][C7_Step]_vars

C7_Witness ==
  /\ rOp.op = "frame"
  /\ rOp.frame.type = "vad_output"
  /\ rOp.chatMode
  /\ timers # << >>

\* C8: the handler of a frame whose tag is none of vad_output, audio_output,
\* text_output ends by failing, not by returning normally.
C8_UnknownTagFails ==
  (rOp.op = "frame" /\ rOp.frame.type \notin KnownTags) => rFailed

\* C9: readyState starts idle; connect() sets connecting; a transport open
\* sets open and calls onOpen; a transport close sets closed and calls
\* onClose, also after disconnect(); disconnect() sets idle and asks the
\* transport of client.current to close; no inbound frame, transport error
\* or outbound command changes readyState.
C9_Step ==
  /\ rOp'.op = "connect" => readyState' = "connecting"
  /\ rOp'.op = "open" => (readyState' = "open" /\ rOut' = << OnOpen >>)
  /\ rOp'.op = "close" => (readyState' = "closed" /\ rOut' = << OnClose >>)
  /\ rOp'.op = "disconnect" =>
       /\ readyState' = "idle"
       /\ clients # << >> =>
            rOut' = << [call |-> "close", client |-> Len(clients)] >>
  /\ rOp'.op \in {"frame", "error", "send", "sendUserInput"} =>
       readyState' = readyState

C9_Lifecycle == (readyState = "idle") /\ [][C9_Step]_vars

C9_Witness ==
  /\ rOp = [op |-> "close", was |-> "idle"]
  /\ readyState = "closed"
  /\ clients # << >>

\* C10: every transport error calls onError with the error's message, or
\* with 'Unknown error' when it is not an Error; the promise of a connect()
\* call is settled only by an open (resolved) or an error (rejected with
\* that error) of its client that finds it pending, and once settled it
\* never changes.
C10_Step ==
  /\ rOp'.op = "error" =>
       /\ rOut' =
            << [cb |-> "onError",
                msg |-> IF rOp'.error.kind = "Error"
                          THEN rOp'.error.message ELSE "Unknown error",
                error |-> IF rOp'.error.kind = "Error"
                            THEN rOp'.error ELSE NoCause] >>
       /\ clients[rOp'.client].promise = "pending" =>
            /\ clients'[rOp'.client].promise = "rejected"
            /\ clients'[rOp'.client].cause = rOp'.error
  /\ rOp'.op = "open" =>
       (clients[rOp'.client].promise = "pending" =>
          clients'[rOp'.client].promise = "resolved")
  /\ \A i \in 1..Len(clients) :
       /\ clients[i].promise # "pending" => clients'[i] = clients[i]
       /\ clients'[i] # clients[i] =>
            (rOp'.op \in {"open", "error"} /\ rOp'.client = i)

C10_ConnectCompletion == [][C10_Step]_vars

C10_Witness ==
  /\ rOp.op = "open"
  /\ clients[rOp.client].promise = "rejected"
  /\ clients[rOp.client].cause.kind = "Event"

\* C11: an addToQueue made while the player is not initialized (before
\* initPlayer, after stopAll), or whose clip does not decode, calls onError
\* once and changes neither the queue, nor the active clip, nor isProcessing,
\* nor what was enqueued and played; every other addToQueue accepts the clip
\* without an error; and the clips accepted before and after it are played
\* in enqueue order.
C11_Failed ==
  \/ ~isInitialized
  \/ audioContext = 0
  \/ ~pOp'.decodable

C11_Step ==
  pOp'.op = "addToQueue" =>
    IF C11_Failed
      THEN /\ Len(pOut') = 1
           /\ pOut'[1].cb = "onError"
           /\ pOut'[1].msg = IF ~isInitialized \/ audioContext = 0
                               THEN "Audio player has not been initialized"
                               ELSE "Failed to add clip to queue"
           /\ clipQueue' = clipQueue
           /\ currentlyPlayingAudioBuffer' = currentlyPlayingAudioBuffer
           /\ isProcessing' = isProcessing
           /\ sources' = sources
           /\ enqueued' = enqueued
           /\ played' = played
      ELSE /\ Len(enqueued') = Len(enqueued) + 1
           /\ \A i \in 1..Len(pOut') : pOut'[i].cb # "onError"

C11_FailedEnqueueNoOp ==
  /\ [](Len(played) <= Len(enqueued)
        /\ \A i \in 1..Len(played) : played[i] = enqueued[i])
  /\ [][C11_Step]_vars

C11_Witness ==
  /\ pOp = [op |-> "addToQueue", decodable |-> FALSE]
  /\ pOut = << ErrDecode >>
  /\ currentlyPlayingAudioBuffer # 0
  /\ Len(clipQueue) >= 1
  /\ Len(played) >= 2

\* The application events among the calls of an operation.
C12_Events(out) == SelectSeq(out, LAMBDA o : "cb" \in DOMAIN o)

\* The transport calls among them.
C12_Forwards(out) == SelectSeq(out, LAMBDA o : "call" \in DOMAIN o)

C12_UserEcho(text) ==
  [cb |-> "onMessage", type |-> "user_message", role |-> "user",
   content |-> text, id |-> "", end |-> FALSE]

C12_Placeholder ==
  [cb |-> "onMessage", type |-> "assistant_notend_message",
   role |-> "assistant", content |-> "", id |-> "notend begin", end |-> FALSE]

\* What C12 says of every outbound command, whatever sendUserInput emits:
\* no local state changes; a command other than sendUserInput makes one
\* transport call if there is a client and emits no event; sendUserInput
\* forwards the text first, if there is a client.
C12_Frame ==
  rOp'.op \in {"send", "sendUserInput"} =>
    /\ UNCHANGED << readyState, curChatMode, clients, timers, handed >>
    /\ rOp'.op = "send" =>
         /\ C12_Events(rOut') = << >>
         /\ rOut' = IF clients = << >> THEN << >>
                    ELSE << [call |-> rOp'.command, client |-> Len(clients)] >>
    /\ rOp'.op = "sendUserInput" =>
         /\ C12_Forwards(rOut') =
              IF clients = << >> THEN << >>
              ELSE << [call |-> "sendUserInput", client |-> Len(clients),
                       text |-> rOp'.text] >>
         /\ rOut' = C12_Forwards(rOut') \o C12_Events(rOut')

\* C12 as stated: sendUserInput emits local events only in chat mode and
\* for a text other than "new topic", and then the UserMessage followed by
\* the AssistantMessage placeholder.
C12_StepAsStated ==
  /\ C12_Frame
  /\ rOp'.op = "sendUserInput" =>
       C12_Events(rOut') =
         IF rOp'.chatMode /\ rOp'.text # "new topic"
           THEN << C12_UserEcho(rOp'.text), C12_Placeholder >>
           ELSE << >>

C12_OutboundAsStated == [][C12_StepAsStated]_vars

\* C12 (amended): outbound commands emit no application events and change
\* no local state, except sendUserInput: after forwarding the text to the
\* transport (if a client exists) it emits nothing for the sentinel
\* "new topic"; for any other text it emits the AssistantMessage placeholder
\* (empty content, end=false) in both modes, preceded in chat mode, and only
\* in chat mode, by UserMessage(content=text).
C12_Step ==
  /\ C12_Frame
  /\ rOp'.op = "sendUserInput" =>
       C12_Events(rOut') =
         IF rOp'.text = "new topic" THEN << >>
         ELSE IF rOp'.chatMode
           THEN << C12_UserEcho(rOp'.text), C12_Placeholder >>
           ELSE << C12_Placeholder >>

C12_Outbound == [][C12_Step]_vars

C12_Witness ==
  /\ rOp = [op |-> "sendUserInput", text |-> "hi", chatMode |-> TRUE]
  /\ clients # << >>
  /\ Len(rOut) = 3
  /\ readyState = "open"

\* C13: the spectrum snapshot is the idle one initially and as long as no
\* clip was enqueued, and in the state right after every completion
\* (onended) of a clip, every clearQueue() and every stopAll().
C13_Step ==
  pOp'.op \in {"onended", "clearQueue", "stopAll"} => fft' = "idle"

C13_IdleVisualization ==
  /\ fft = "idle"
  /\ [](nextClip = 1 => fft = "idle")
  /\ [][C13_Step]_vars

C13_Witness ==
  /\ pOp.op = "onended"
  /\ fft = "idle"
  /\ currentlyPlayingAudioBuffer # 0
  /\ sources[currentlyPlayingAudioBuffer].state = "playing"
  /\ frequencyDataIntervalId \in intervals
  /\ \E s \in Clips : sources[s].state = "ended"

\* C14: every stopAll(), from any state, calls no onError and leaves an
\* empty queue, no active clip, isProcessing and isPlaying false, the player
\* not initialized, the idle spectrum snapshot and no sampling interval
\* scheduled; a stopAll() that follows a stopAll() changes nothing.
C14_Step ==
  pOp'.op = "stopAll" =>
    /\ pOut' = << >>
    /\ clipQueue' = << >>
    /\ currentlyPlayingAudioBuffer' = 0
    /\ ~isProcessing'
    /\ ~isPlaying'
    /\ ~isInitialized'
    /\ fft' = "idle"
    /\ intervals' = {}
    /\ pOp.op = "stopAll" => playerVars' = playerVars

C14_StopAllRepeatable == [][C14_Step]_vars

\* C15: while the player is initialized (initPlayer() was called and no
\* stopAll() since), a muteAudio() followed by an unmuteAudio() leaves the
\* gain at 1 and the muted flag false; and no muteAudio() or unmuteAudio()
\* changes the queue, the active clip or isProcessing.
C15_Step ==
  /\ (pOp.op = "mute" /\ pOp'.op = "unmute" /\ isInitialized) =>
       (gain' = 1 /\ ~isAudioMuted')
  /\ pOp'.op \in {"mute", "unmute"} =>
       /\ clipQueue' = clipQueue
       /\ currentlyPlayingAudioBuffer' = currentlyPlayingAudioBuffer
       /\ isProcessing' = isProcessing

C15_MuteRoundTrip == [][C15_Step]_vars

\* C16: in every reachable state a sampling interval is scheduled only for
\* a clip that is sounding, and at most one is scheduled: the interval of a
\* clip is cancelled when the clip ends, is cleared or is stopped.
C16_SamplingCancelled ==
  /\ \A i \in intervals : Sounding(i)
  /\ Cardinality(intervals) <= 1

\* The step is the onended of source s, and s is not the active clip.
C17_StaleCompletion(s) ==
  /\ pOp'.op = "onended"
  /\ sources[s].state \in {"playing", "stopped"}
  /\ sources'[s].state = "ended"
  /\ currentlyPlayingAudioBuffer # s

\* C17: the onended of a clip that is not the active clip leaves
\* isProcessing, isPlaying and the active-clip reference as they were,
\* leaves the sampling interval of the active clip scheduled, starts no
\* clip and calls no onError.
C17_Step ==
  \A s \in Clips :
    C17_StaleCompletion(s) =>
      /\ isProcessing' = isProcessing
      /\ isPlaying' = isPlaying
      /\ currentlyPlayingAudioBuffer' = currentlyPlayingAudioBuffer
      /\ currentlyPlayingAudioBuffer \in intervals =>
           currentlyPlayingAudioBuffer \in intervals'
      /\ played' = played
      /\ clipQueue' = clipQueue
      /\ pOut' = << >>

C17_StaleCompletionInert == [][C17_Step]_vars

C18_Reports(out, msg) ==
  \E i \in 1..Len(out) : out[i] = [cb |-> "onError", msg |-> msg]

\* C18: while the player is initialized (initPlayer() was called and no
\* stopAll() since), the resolution of an earlier stopAll's close() leaves
\* audioContext.current alone, no addToQueue reports 'Audio player has not
\* been initialized' and no playback step reports 'Audio environment is not
\* initialized'.
C18_Step ==
  isInitialized =>
    /\ pOp'.op = "closeThen" => audioContext' = audioContext
    /\ pOp'.op = "addToQueue" =>
         ~C18_Reports(pOut', "Audio player has not been initialized")
    /\ pOp'.op \in {"addToQueue", "onended"} =>
         ~C18_Reports(pOut', "Audio environment is not initialized")

C18_ReinitSurvivesTeardown == [][C18_Step]_vars

\* C19: when every ended event is eventually delivered, a clip that is in
\* the queue eventually leaves it, started by the playback step or removed
\* by a clearQueue() or stopAll(): no clip waits in the queue forever.
C19_QueueProgress ==
  \A c \in ProgressClips :
    (c \in Buffers(clipQueue)) ~> (c \notin Buffers(clipQueue))

\* C20: with onVAD wired to clearQueue() and onAudioMessage to addToQueue(),
\* once a vad_output frame was processed in chat mode, no audio_output frame
\* that had arrived before it is handed to the scheduler, and no clip of
\* such a frame starts sounding.
C20_Step ==
  /\ handed' # handed =>
       FrameNo(handed'[Len(handed')]) > interruptedUpTo'
  /\ (played' # played /\ played' # << >>) =>
       FrameNo(played'[Len(played')]) > interruptedUpTo'

C20_InterruptionCoversPending == [][C20_Step]_vars

====
